---- MODULE Spec2Model ----
(***************************************************************************)
(* EpyNN: activation library (nnlibs/commons/maths.py), gradient clipper,  *)
(* dense forward pass (nnlibs/dense/forward.py) and the GRU layer helpers  *)
(* (nnlibs/gru/parameters.py).                                             *)
(*                                                                         *)
(* Numbers are fixed-point: the integer n stands for n / Scale.  A tensor  *)
(* of rank 2 is a sequence of rows, a tensor of rank 3 a sequence of       *)
(* rank-2 tensors.  A Python dict is a function from its keys.             *)
(***************************************************************************)
EXTENDS Integers, Sequences, FiniteSets, TLC

VARIABLES
    \* ---- nnlibs/commons/maths.py: the global and the passes that use it
    layer_hPars,   \* the module global: <<>> while undefined, <<dict>> once set
    passPars,      \* passPars[p]: the se_hPars dict of the layer of pass p
    passPc,        \* passPc[p]: "start" | "tuned"
    passActs,      \* passActs[p]: activation calls made by pass p
    lastCall,      \* the most recent activation call and what it returned
    \* ---- sigmoid forward / derivative pairing
    sig_pc, sig_x, sig_y, sig_linear, sig_d,
    \* ---- clip_gradient
    clip_pc, clip_g, clip_pre, clip_max, clip_norm,
    \* ---- one layer (dense or GRU) and its caller
    kind, binary, init, d, fs, p, g, fc, bc, ts, m,
    pc, t, h, hp, raised, ret, calls,
    initCalls, fwdCalls, tsBefore, fcBatch, bcBatch, pBefore, gBefore,
    fcBefore, bcLog

actVars   == <<layer_hPars, passPars, passPc, passActs, lastCall>>
sigVars   == <<sig_pc, sig_x, sig_y, sig_linear, sig_d>>
clipVars  == <<clip_pc, clip_g, clip_pre, clip_max, clip_norm>>
layerVars == <<kind, binary, init, d, fs, p, g, fc, bc, ts, m,
               pc, t, h, hp, raised, ret, calls,
               initCalls, fwdCalls, tsBefore, fcBatch, bcBatch, pBefore,
               gBefore, fcBefore, bcLog>>
vars      == <<actVars, sigVars, clipVars, layerVars>>

-----------------------------------------------------------------------------
(* Bounds                                                                  *)

Scale == 1000         \* fixed-point resolution: n stands for n / Scale
NumPasses == 2        \* passes (layers) sharing the maths module
MaxActs == 1          \* activation calls per pass

-----------------------------------------------------------------------------
(* Fixed-point arithmetic and tensors.  An operator that uses a tensor     *)
(* argument more than once first binds its value (CHOOSE over a singleton) *)
(* so that the argument is evaluated once.                                 *)

Mul(a, b) == (a * b) \div Scale
FDiv(a, b) == (a * Scale) \div b
Max(a, b) == IF a >= b THEN a ELSE b

RECURSIVE ExpSeries(_, _, _, _)
ExpSeries(x, k, term, acc) ==
    IF term = 0 THEN acc
    ELSE LET nt == (term * x) \div (Scale * k)
         IN  ExpSeries(x, k + 1, nt, acc + nt)

\* np.exp on one element
Exp(x0) ==
    CHOOSE e \in { IF x >= 0 THEN ExpSeries(x, 1, Scale, Scale)
                   ELSE (Scale * Scale) \div ExpSeries(-x, 1, Scale, Scale) :
                   x \in {x0} } : TRUE

Rows(A) == Len(A)
Cols(A) == Len(A[1])
Map2(F(_), A0) ==
    CHOOSE R \in { [i \in 1..Rows(A) |-> [j \in 1..Cols(A) |-> F(A[i][j])]] :
                   A \in {A0} } : TRUE
Zeros(r, c) == [i \in 1..r |-> [j \in 1..c |-> 0]]
Fill(r, c, v) == [i \in 1..r |-> [j \in 1..c |-> v]]

RECURSIVE SumTo(_, _)
SumTo(f, n) == IF n = 0 THEN 0 ELSE f[n] + SumTo(f, n - 1)

RECURSIVE MaxTo(_, _)
MaxTo(f, n) == IF n = 1 THEN f[1] ELSE Max(f[n], MaxTo(f, n - 1))

-----------------------------------------------------------------------------
(* Activation functions, nnlibs/commons/maths.py.                          *)
(* A call returns [err, val]: err = "none" and val the result, or err the  *)
(* exception raised and val = <<>>.  hP is the value of the global         *)
(* layer_hPars at the time of the call.                                    *)

Ok(v) == [err |-> "none", val |-> v]
Raise(e) == [err |-> e, val |-> <<>>]

\* layer_hPars[key]: NameError while the global is undefined, KeyError when
\* the dict lacks the key
Lookup(hP, key) ==
    IF hP = <<>> THEN Raise("NameError")
    ELSE IF key \notin DOMAIN hP[1] THEN Raise("KeyError")
    ELSE Ok(hP[1][key])

identity(x, deriv) ==
    IF ~deriv THEN Ok(x) ELSE Ok(Map2(LAMBDA v : Scale, x))

relu(x, deriv) ==
    IF ~deriv THEN Ok(Map2(LAMBDA v : Max(0, v), x))
    ELSE Ok(Map2(LAMBDA v : IF v > 0 THEN Scale ELSE 0, x))

lrelu_default(hP, x, deriv) ==
    LET a == IF Lookup(hP, "LRELU_alpha").err = "none"
             THEN Lookup(hP, "LRELU_alpha").val ELSE Scale \div 100
    IN  IF ~deriv THEN Ok(Map2(LAMBDA v : Max(Mul(a, v), v), x))
        ELSE Ok(Map2(LAMBDA v : IF v > 0 THEN Scale ELSE a, x))

lrelu(hP, x, deriv) ==
    LET a == Lookup(hP, "LRELU_alpha")
    IN  IF a.err # "none" THEN Raise(a.err)
        ELSE IF ~deriv THEN Ok(Map2(LAMBDA v : Max(Mul(a.val, v), v), x))
        ELSE Ok(Map2(LAMBDA v : IF v > 0 THEN Scale ELSE a.val, x))

elu_fwd(a, v) == IF v > 0 THEN v ELSE Mul(a, Exp(v) - Scale)

elu(hP, x, deriv) ==
    LET a == Lookup(hP, "ELU_alpha")
    IN  IF a.err # "none" THEN Raise(a.err)
        ELSE IF ~deriv THEN Ok(Map2(LAMBDA v : elu_fwd(a.val, v), x))
        ELSE Ok(Map2(LAMBDA v : IF v > 0 THEN Scale
                                ELSE elu_fwd(a.val, v) + a.val, x))

sigmoid_fwd(v) == IF v >= 0 THEN FDiv(Scale, Scale + Exp(-v))
                  ELSE FDiv(Exp(v), Scale + Exp(v))

sigmoid_relinear(x, linear, deriv) ==
    LET x1 == Map2(sigmoid_fwd, x)
    IN  Ok(IF deriv THEN Map2(LAMBDA v : Mul(v, Scale - v), x1) ELSE x1)

sigmoid(x, linear, deriv) ==
    LET x1 == IF linear THEN Map2(sigmoid_fwd, x) ELSE x
    IN  Ok(IF deriv THEN Map2(LAMBDA v : Mul(v, Scale - v), x1) ELSE x1)

tanh_fwd(v) == FDiv(Exp(v) - Exp(-v), Exp(v) + Exp(-v))

tanh(x, linear, deriv) ==
    LET x1 == IF linear THEN Map2(tanh_fwd, x) ELSE x
    IN  Ok(IF deriv THEN Map2(LAMBDA v : Scale - Mul(v, v), x1) ELSE x1)

softmax(hP, x0, linear, deriv) ==
    LET T == Lookup(hP, "softmax_temperature")
    IN  IF T.err # "none" THEN Raise(T.err)
        ELSE
        LET x == CHOOSE v \in {x0} : TRUE
            x_exp == [i \in 1..Rows(x) |-> [j \in 1..Cols(x) |->
                         Exp(FDiv(x[i][j] - MaxTo(x[i], Cols(x)), T.val))]]
            x1 == IF linear
                  THEN [i \in 1..Rows(x) |-> [j \in 1..Cols(x) |->
                           FDiv(x_exp[i][j], SumTo(x_exp[i], Cols(x)))]]
                  ELSE x
        IN  Ok(IF deriv THEN Map2(LAMBDA v : Mul(v, Scale - v), x1) ELSE x1)

NeedsContext == {"lrelu", "elu", "softmax"}
NoContext == {"identity", "relu", "sigmoid", "tanh"}
Activations == NeedsContext \cup NoContext

\* the call fn(x, deriv=deriv) with the global layer_hPars holding hP
Apply(fn, hP, x, deriv) ==
    CASE fn = "identity" -> identity(x, deriv)
      [] fn = "relu"     -> relu(x, deriv)
      [] fn = "lrelu"    -> lrelu(hP, x, deriv)
      [] fn = "elu"      -> elu(hP, x, deriv)
      [] fn = "sigmoid"  -> sigmoid(x, TRUE, deriv)
      [] fn = "tanh"     -> tanh(x, TRUE, deriv)
      [] fn = "softmax"  -> softmax(hP, x, TRUE, deriv)

-----------------------------------------------------------------------------
(* Passes of several layers over the one maths module                      *)

Passes == 1..NumPasses

\* hPars of nnlive/dummy_boolean/settings.py, as far as maths.py reads them
hPars == [softmax_temperature |-> Scale,
          ELU_alpha |-> Scale \div 100,
          LRELU_alpha |-> Scale]

\* the hyperparameters the layers of the passes are given (se_hPars): the
\* settings file's, a local dictionary without LRELU_alpha, one with
\* LRELU_alpha only, and one with other values for every key
HParChoices ==
    << hPars,
       [softmax_temperature |-> 2 * Scale, ELU_alpha |-> Scale \div 2],
       [LRELU_alpha |-> Scale \div 10],
       [softmax_temperature |-> 2 * Scale, ELU_alpha |-> Scale \div 2,
        LRELU_alpha |-> Scale \div 10] >>

se_hPars(q) == HParChoices[((q - 1) % Len(HParChoices)) + 1]

ActInputs == { <<<<-2 * Scale, Scale>>>>, <<<<0, -Scale \div 2>>>> }

NoCall == [pass |-> 0, tuned |-> FALSE, fn |-> "none", x |-> <<>>,
           deriv |-> FALSE, ctx |-> <<>>, out |-> Raise("none")]

InitAct ==
    /\ layer_hPars = <<>>
    /\ passPars = [q \in Passes |-> se_hPars(q)]
    /\ passPc = [q \in Passes |-> "start"]
    /\ passActs = [q \in Passes |-> 0]
    /\ lastCall = NoCall

IdleAct ==
    /\ layer_hPars = <<>>
    /\ passPars = [q \in Passes |-> hPars]
    /\ passPc = [q \in Passes |-> "start"]
    /\ passActs = [q \in Passes |-> 0]
    /\ lastCall = NoCall

\* activation_tune(se_hPars), called by the layer of pass q at the start of
\* its pass
activation_tune(q) ==
    /\ passPc[q] = "start"
    /\ layer_hPars' = <<passPars[q]>>
    /\ passPc' = [passPc EXCEPT ![q] = "tuned"]
    /\ UNCHANGED <<passPars, passActs, lastCall>>

\* pass q calls one activation function
Activate(q) ==
    /\ passActs[q] < MaxActs
    /\ \E fn \in Activations, x \in ActInputs, deriv \in BOOLEAN :
          lastCall' = [pass |-> q, tuned |-> passPc[q] = "tuned", fn |-> fn,
                       x |-> x, deriv |-> deriv, ctx |-> layer_hPars,
                       out |-> Apply(fn, layer_hPars, x, deriv)]
    /\ passActs' = [passActs EXCEPT ![q] = @ + 1]
    /\ UNCHANGED <<layer_hPars, passPars, passPc>>

-----------------------------------------------------------------------------
(* sigmoid: forward call, then derivative call on the forward output       *)

SigVals == {-3 * Scale, -Scale, -Scale \div 2, 0, Scale \div 2, Scale,
            3 * Scale}
SigInputs == { <<<<a, b>>>> : a \in SigVals, b \in SigVals }

InitSig ==
    /\ sig_pc = "input"
    /\ sig_x \in SigInputs
    /\ sig_y = <<>>
    /\ sig_linear = TRUE
    /\ sig_d = <<>>

IdleSig ==
    /\ sig_pc = "off"
    /\ sig_x = <<>>
    /\ sig_y = <<>>
    /\ sig_linear = TRUE
    /\ sig_d = <<>>

\* y = sigmoid(x)
SigForward ==
    /\ sig_pc = "input"
    /\ sig_y' = sigmoid(sig_x, TRUE, FALSE).val
    /\ sig_pc' = "forward"
    /\ UNCHANGED <<sig_x, sig_linear, sig_d>>

\* sigmoid(y, linear=linear, deriv=True); linear defaults to True
SigDerivative ==
    /\ sig_pc = "forward"
    /\ \E linear \in BOOLEAN :
          /\ sig_linear' = linear
          /\ sig_d' = sigmoid(sig_y, linear, TRUE).val
    /\ sig_pc' = "derived"
    /\ UNCHANGED <<sig_x, sig_y>>

-----------------------------------------------------------------------------
(* clip_gradient.  In this part every quantity (gradient entries, norms,   *)
(* max_norm) is a multiple of E_SAFE, so E_SAFE itself is 1; np.sqrt and   *)
(* the in-place product round to the nearest multiple.                     *)

E_SAFE == 1
GradMax == 3          \* gradient entries range over -GradMax..GradMax
MaxNormMax == 6       \* max_norm ranges over 1..MaxNormMax

RECURSIVE SumSqRow(_, _)
SumSqRow(row, n) ==
    IF n = 0 THEN 0
    ELSE (row[n] + E_SAFE) * (row[n] + E_SAFE) + SumSqRow(row, n - 1)

RECURSIVE SumSqRows(_, _)
SumSqRows(A, n) ==
    IF n = 0 THEN 0 ELSE SumSqRow(A[n], Len(A[n])) + SumSqRows(A, n - 1)

\* np.sum(np.power(grad + E_SAFE, 2))
grad_norm(grad) == SumSqRows(grad, Rows(grad))

RECURSIVE SumOver(_, _)
SumOver(gd, keys) ==
    IF keys = {} THEN 0
    ELSE LET k == CHOOSE k \in keys : TRUE
         IN  grad_norm(gd[k]) + SumOver(gd, keys \ {k})

\* np.sqrt, rounded to the nearest representable value
Sqrt(n) ==
    LET r == CHOOSE r \in 0..n : r * r <= n /\ (r + 1) * (r + 1) > n
    IN  IF n - r * r > r THEN r + 1 ELSE r

\* a / b for b > 0, rounded to the nearest representable value
RoundDiv(a, b) == (2 * a + b) \div (2 * b)

\* total_norm as computed at lines 277-284
total_norm(gd) == Sqrt(SumOver(gd, DOMAIN gd))

\* the layer's gradients after clip_gradient(layer, max_norm)
clip_gradient(gd, max_norm) ==
    LET num == max_norm                   \* clip_coef = num / den
        den == total_norm(gd) + E_SAFE
    IN  IF num < den                      \* clip_coef < 1
        THEN [k \in DOMAIN gd |->
                 Map2(LAMBDA v : RoundDiv(v * num, den), gd[k])]
        ELSE gd

GradVals == (-GradMax)..GradMax
ClipGrads == { [dW |-> <<<<a, b>>>>, db |-> <<<<c>>>>] :
               a \in GradVals, b \in GradVals, c \in GradVals }

InitClip ==
    /\ clip_pc = "ready"
    /\ clip_g \in ClipGrads
    /\ clip_pre = clip_g
    /\ clip_max = 0
    /\ clip_norm = 0

IdleClip ==
    /\ clip_pc = "off"
    /\ clip_g = <<>>
    /\ clip_pre = <<>>
    /\ clip_max = 0
    /\ clip_norm = 0

ClipGradient ==
    /\ clip_pc = "ready"
    /\ \E max_norm \in 1..MaxNormMax :
          /\ clip_max' = max_norm
          /\ clip_g' = clip_gradient(clip_g, max_norm)
    /\ clip_pre' = clip_g
    /\ clip_norm' = total_norm(clip_g)
    /\ clip_pc' = "clipped"

-----------------------------------------------------------------------------
(* Tensor operations of numpy used by the layers                           *)

HiddenSize == 1       \* hidden_size given to init_shapes
VocabSize == 1        \* runData.e['v']
MaxT == 2             \* timesteps of an input
MaxBatch == 2         \* samples of an input
MaxCalls == 2         \* forward and backward calls made by the training loop

Transpose(A0) ==
    CHOOSE R \in { [j \in 1..Cols(A) |-> [i \in 1..Rows(A) |-> A[i][j]]] :
                   A \in {A0} } : TRUE

\* np.dot of two rank-2 tensors; DotOK is the shape test np.dot makes
DotOK(A, B) == Cols(A) = Rows(B)
Dot(A0, B0) ==
    CHOOSE R \in { [i \in 1..Rows(A) |-> [j \in 1..Cols(B) |->
                       SumTo([k \in 1..Cols(A) |-> Mul(A[i][k], B[k][j])],
                             Cols(A))]] :
                   A \in {A0}, B \in {B0} } : TRUE

\* element-wise operations with numpy broadcasting of an axis of size 1
BroadcastOK(A, B) ==
    /\ Rows(A) = Rows(B) \/ Rows(A) = 1 \/ Rows(B) = 1
    /\ Cols(A) = Cols(B) \/ Cols(A) = 1 \/ Cols(B) = 1
At(A, i, j) == A[IF Rows(A) = 1 THEN 1 ELSE i][IF Cols(A) = 1 THEN 1 ELSE j]
Add(A0, B0) ==
    CHOOSE R \in { [i \in 1..Max(Rows(A), Rows(B)) |->
                      [j \in 1..Max(Cols(A), Cols(B)) |->
                          At(A, i, j) + At(B, i, j)]] :
                   A \in {A0}, B \in {B0} } : TRUE
Multiply(A0, B0) ==
    CHOOSE R \in { [i \in 1..Max(Rows(A), Rows(B)) |->
                      [j \in 1..Max(Cols(A), Cols(B)) |->
                          Mul(At(A, i, j), At(B, i, j))]] :
                   A \in {A0}, B \in {B0} } : TRUE
\* 1 - A
OneMinus(A) == Map2(LAMBDA v : Scale - v, A)
\* np.sum(A, axis=1, keepdims=True)
SumAxis1(A0) ==
    CHOOSE R \in { [i \in 1..Rows(A) |-> <<SumTo(A[i], Cols(A))>>] :
                   A \in {A0} } : TRUE
\* 1./ m * A
Over(mm, A) == Map2(LAMBDA v : v \div mm, A)
\* A.shape of a rank-2 and of a rank-3 tensor
Shape2(A) == <<Len(A), Len(A[1])>>
Shape3(A) == <<Len(A), Len(A[1]), Len(A[1][1])>>
\* seq[i] with a Python index i (0-based, negative counts from the end)
PyIdx(seq, i) == IF i < 0 THEN seq[Len(seq) + i + 1] ELSE seq[i + 1]
\* X[:, t]
XAt(X, tt) == [f \in 1..Len(X) |-> X[f][tt + 1]]

-----------------------------------------------------------------------------
(* The layer: construction                                                 *)

ParamKeys == {"Wz", "Uz", "bz", "Wr", "Ur", "br", "Wh", "Uh", "bh", "Wy", "by"}
WeightKeys == {"Wz", "Uz", "Wr", "Ur", "Wh", "Uh", "Wy"}
GradKeys == {"dWz", "dUz", "dbz", "dWr", "dUr", "dbr", "dWh", "dUh", "dbh",
             "dWy", "dby"}
ParamOf == [dWz |-> "Wz", dUz |-> "Uz", dbz |-> "bz", dWr |-> "Wr",
            dUr |-> "Ur", dbr |-> "br", dWh |-> "Wh", dUh |-> "Uh",
            dbh |-> "bh", dWy |-> "Wy", dby |-> "by", dW |-> "W", db |-> "b"]
CacheKeys == {"z", "r", "h", "hp", "A"}

\* init_shapes(layer, hidden_size, runData): layer.d and layer.fs
init_shapes(bin, hidden_size, v) ==
    LET o  == IF bin = FALSE THEN v ELSE 2
        hv == <<hidden_size, v>>
        hh == <<hidden_size, hidden_size>>
        h1 == <<hidden_size, 1>>
        oh == <<o, hidden_size>>
        o1 == <<o, 1>>
    IN  [d  |-> [h |-> hidden_size, v |-> v, o |-> o],
         fs |-> [Wz |-> hv, Uz |-> hh, bz |-> h1,
                 Wr |-> hv, Ur |-> hh, br |-> h1,
                 Wh |-> hv, Uh |-> hh, bh |-> h1,
                 Wy |-> oh, by |-> o1]]

\* shapes of a dense layer of HiddenSize nodes over VocabSize features
dense_shapes ==
    [d  |-> [n |-> VocabSize, o |-> HiddenSize],
     fs |-> [W |-> <<HiddenSize, VocabSize>>, b |-> <<HiddenSize, 1>>]]

\* the gradient dict, one zero tensor of the parameter's shape per gradient
zero_gradients(keys, shapes) ==
    [k \in keys |-> Zeros(shapes[ParamOf[k]][1], shapes[ParamOf[k]][2])]

\* outcomes of layer.initialization(shape): the random source is bounded to
\* tensors filled with one of these values
InitDraws == {-(Scale \div 2), Scale \div 2}

init_params_noflip(shapes, w) ==
    [p    |-> [k \in ParamKeys |->
                 IF k \in WeightKeys THEN Fill(shapes[k][1], shapes[k][2], w)
                 ELSE Zeros(shapes[k][1], shapes[k][2])],
     init |-> TRUE]

\* init_params(layer): layer.p and layer.init afterwards
init_params(shapes, w) ==
    [p    |-> [k \in ParamKeys |->
                 IF k \in WeightKeys THEN Fill(shapes[k][1], shapes[k][2], w)
                 ELSE Zeros(shapes[k][1], shapes[k][2])],
     init |-> FALSE]

\* dp.init_params(layer) of the dense layer
dense_init_params(shapes, w) ==
    [p    |-> [W |-> Fill(shapes.W[1], shapes.W[2], w),
               b |-> Zeros(shapes.b[1], shapes.b[2])],
     init |-> FALSE]

\* A batch is named by <<timesteps, samples, fill>>; its input X has axes
\* (features, timesteps, samples) and every entry equal to fill.
XFills == {Scale}
DAFills == {Scale, -Scale}
Batches == ((1..MaxT) \X (1..MaxBatch)) \X XFills
NoBatch == <<<<0, 0>>, 0>>
BatchT(b) == b[1][1]
BatchM(b) == b[1][2]
BatchX(b) == [f \in 1..VocabSize |-> Fill(BatchT(b), BatchM(b), b[2])]
DenseX(b) == Fill(VocabSize, BatchM(b), b[2])

InitLayer ==
    /\ kind \in {"dense", "gru"}
    /\ binary \in (IF kind = "gru" THEN BOOLEAN ELSE {FALSE})
    /\ init = TRUE
    /\ d = IF kind = "gru" THEN init_shapes(binary, HiddenSize, VocabSize).d
           ELSE dense_shapes.d
    /\ fs = IF kind = "gru" THEN init_shapes(binary, HiddenSize, VocabSize).fs
            ELSE dense_shapes.fs
    /\ p = <<>>
    /\ g = IF kind = "gru" THEN zero_gradients(GradKeys, fs)
           ELSE zero_gradients({"dW", "db"}, fs)
    /\ fc = <<>>
    /\ bc = <<>>
    /\ ts = 0
    /\ m = 0
    /\ pc = "idle"
    /\ t = 0
    /\ h = <<>>
    /\ hp = <<>>
    /\ raised = "none"
    /\ ret = <<>>
    /\ calls = 0
    /\ initCalls = 0
    /\ fwdCalls = 0
    /\ tsBefore = 0
    /\ pBefore = <<>>
    /\ fcBatch = NoBatch
    /\ bcBatch = NoBatch
    /\ gBefore = <<>>
    /\ bcLog = <<>>
    /\ fcBefore = <<>>

IdleLayer ==
    /\ kind = "off"
    /\ binary = FALSE
    /\ init = TRUE
    /\ d = <<>>
    /\ fs = <<>>
    /\ p = <<>>
    /\ g = <<>>
    /\ fc = <<>>
    /\ bc = <<>>
    /\ ts = 0
    /\ m = 0
    /\ pc = "off"
    /\ t = 0
    /\ h = <<>>
    /\ hp = <<>>
    /\ raised = "none"
    /\ ret = <<>>
    /\ calls = 0
    /\ initCalls = 0
    /\ fwdCalls = 0
    /\ tsBefore = 0
    /\ pBefore = <<>>
    /\ fcBatch = NoBatch
    /\ bcBatch = NoBatch
    /\ gBefore = <<>>
    /\ bcLog = <<>>
    /\ fcBefore = <<>>

-----------------------------------------------------------------------------
(* Dense layer: forward pass                                               *)

\* dense_forward(layer, A) on the input of batch b; w is what the random
\* source yields if the parameters are initialized by this call.
\* dp.init_forward caches X and its shape.
dense_forward(b, w) ==
    LET X   == DenseX(b)
        ini == IF init = TRUE THEN dense_init_params(fs, w)
               ELSE [p |-> p, init |-> init]
        Z   == Add(Dot(ini.p.W, X), ini.p.b)
        A   == sigmoid(Z, TRUE, FALSE).val
    IN  /\ kind = "dense"
        /\ pc = "idle"
        /\ calls < MaxCalls
        /\ fc' = ("A" :> A) @@ ("Z" :> Z) @@ ("X" :> X) @@ fc
        /\ fs' = ("X" :> Shape2(X)) @@ fs
        /\ p' = ini.p
        /\ init' = ini.init
        /\ initCalls' = IF init = TRUE THEN initCalls + 1 ELSE initCalls
        /\ ret' = A
        /\ raised' = "none"
        /\ fwdCalls' = fwdCalls + 1
        /\ calls' = calls + 1
        /\ fcBatch' = b
        /\ UNCHANGED <<kind, binary, d, g, bc, ts, m, pc, t, h, hp, pBefore,
                       bcBatch, gBefore, bcLog, fcBefore, tsBefore>>

-----------------------------------------------------------------------------
(* GRU layer: forward pass                                                 *)

init_forward_lastaxis(fc0, fs0, dd, A) ==
    LET fsX == ("X" :> Shape3(A)) @@ fs0
        ts1 == PyIdx(fsX.X, -1)
        fc1 == [c \in CacheKeys |-> [i \in 1..ts1 |-> 0]]
                   @@ (("X" :> A) @@ fc0)
        fsh == ("h" :> <<dd.h, PyIdx(fsX.X, -1)>>) @@ fsX
    IN  [fc |-> fc1, fs |-> fsh, ts |-> ts1,
         h |-> Zeros(fsh.h[1], fsh.h[2])]

\* init_forward(layer, A): layer.fc, layer.fs, layer.ts afterwards and the
\* returned initial hidden state h
init_forward(fc0, fs0, dd, A) ==
    LET fsX == ("X" :> Shape3(A)) @@ fs0
        ts1 == PyIdx(fsX.X, 1)
        fc1 == [c \in CacheKeys |-> [i \in 1..ts1 |-> 0]]
                   @@ (("X" :> A) @@ fc0)
        fsh == ("h" :> <<dd.h, PyIdx(fsX.X, -1)>>) @@ fsX
    IN  [fc |-> fc1, fs |-> fsh, ts |-> ts1,
         h |-> Zeros(fsh.h[1], fsh.h[2])]

\* gru_forward(layer, A), first part: init_forward, then the one-time
\* parameter initialization guarded by layer.init
gru_forward_begin(b, w) ==
    LET f   == init_forward(fc, fs, d, BatchX(b))
        ini == IF init = TRUE THEN init_params(f.fs, w)
               ELSE [p |-> p, init |-> init]
    IN  /\ kind = "gru"
        /\ pc = "idle"
        /\ calls < MaxCalls
        /\ fc' = f.fc
        /\ fs' = f.fs
        /\ ts' = f.ts
        /\ h' = f.h
        /\ p' = ini.p
        /\ init' = ini.init
        /\ initCalls' = IF init = TRUE THEN initCalls + 1 ELSE initCalls
        /\ pc' = "fwd"
        /\ t' = 0
        /\ raised' = "none"
        /\ fwdCalls' = fwdCalls + 1
        /\ calls' = calls + 1
        /\ tsBefore' = ts
        /\ fcBatch' = b
        /\ bcBatch' = NoBatch
        /\ UNCHANGED <<kind, binary, d, g, bc, m, hp, ret, pBefore, gBefore,
                       bcLog, fcBefore>>

\* gru_forward, one timestep t of the loop (activations: sigmoid for the
\* update and reset gates and the output, tanh for the candidate)
gru_forward_step ==
    LET Xt == XAt(fc.X, t)
        z  == sigmoid(Add(Add(Dot(p.Wz, Xt), Dot(p.Uz, h)), p.bz),
                      TRUE, FALSE).val
        r  == sigmoid(Add(Add(Dot(p.Wr, Xt), Dot(p.Ur, h)), p.br),
                      TRUE, FALSE).val
        hc == tanh(Add(Add(Dot(p.Wh, Xt), Dot(p.Uh, Multiply(r, h))), p.bh),
                   TRUE, FALSE).val
        hn == Add(Multiply(OneMinus(z), h), Multiply(z, hc))
        A  == sigmoid(Add(Dot(p.Wy, hn), p.by), TRUE, FALSE).val
    IN  /\ pc = "fwd"
        /\ t < ts
        /\ fc' = [fc EXCEPT !.z[t + 1] = z, !.r[t + 1] = r, !.h[t + 1] = hn,
                            !.hp[t + 1] = h, !.A[t + 1] = A]
        /\ h' = hn
        /\ t' = t + 1
        /\ UNCHANGED <<kind, binary, init, d, fs, p, g, bc, ts, m, pc, hp,
                       raised, ret, calls, initCalls, fwdCalls, tsBefore,
                       pBefore, fcBatch, bcBatch, gBefore, bcLog, fcBefore>>

end_forward_first(fc0, bin) ==
    LET A == fc0.A
    IN  IF bin = TRUE
        THEN [fc |-> [fc0 EXCEPT !.A = PyIdx(A, 0)], ret |-> PyIdx(A, 0)]
        ELSE [fc |-> fc0, ret |-> A]

\* end_forward(layer): layer.fc afterwards and the returned A
end_forward(fc0, bin) ==
    LET A == fc0.A
    IN  IF bin = TRUE
        THEN [fc |-> [fc0 EXCEPT !.A = PyIdx(A, -1)], ret |-> PyIdx(A, -1)]
        ELSE [fc |-> fc0, ret |-> A]

\* gru_forward, after the last timestep: return end_forward(layer)
gru_forward_end ==
    /\ pc = "fwd"
    /\ t = ts
    /\ fc' = end_forward(fc, binary).fc
    /\ ret' = end_forward(fc, binary).ret
    /\ pc' = "idle"
    /\ UNCHANGED <<kind, binary, init, d, fs, p, g, bc, ts, m, t, h, hp,
                   raised, calls, initCalls, fwdCalls, tsBefore, pBefore,
                   fcBatch, bcBatch, gBefore, bcLog, fcBefore>>

-----------------------------------------------------------------------------
(* GRU layer: backward pass                                                *)

\* layer.derivative_input(dh, h): the derivative of tanh taken on the
\* activated value h, applied to dh
derivative_input(dh, hv) == Multiply(dh, tanh(hv, FALSE, TRUE).val)

\* init_backward(layer, dA): layer.bc afterwards and the exception raised,
\* if any.  Statements run in order, so bc keeps what was stored before a
\* failing statement.
init_backward(fc0, bc0, p0, dA) ==
    LET bc1 == ("dX" :> dA) @@ bc0
    IN  IF "h" \notin DOMAIN fc0 THEN [bc |-> bc1, err |-> "KeyError"]
        ELSE
        LET dhn == Map2(LAMBDA v : 0, PyIdx(fc0.h, 0))
            bc2 == ("dXt" :> dA) @@ ("dh_n" :> dhn) @@ bc1
            dot == Dot(Transpose(p0.Wy), dA)
            zl  == OneMinus(PyIdx(fc0.z, -1))
            hl  == PyIdx(fc0.h, -1)
        IN  IF ~DotOK(Transpose(p0.Wy), dA) \/ ~BroadcastOK(dot, dhn)
            THEN [bc |-> bc2, err |-> "ValueError"]
            ELSE IF ~BroadcastOK(Add(dot, dhn), zl)
            THEN [bc |-> bc2, err |-> "ValueError"]
            ELSE IF ~BroadcastOK(Multiply(Add(dot, dhn), zl), hl)
            THEN [bc |-> bc2, err |-> "ValueError"]
            ELSE [bc  |-> ("dh" :> derivative_input(
                                       Multiply(Add(dot, dhn), zl), hl))
                              @@ bc2,
                  err |-> "none"]

\* gru_backward(layer, dA), first part: init_backward on the output gradient
\* of batch b.  The output gradient is one (o x m) tensor, which is what a
\* binary layer returns from its forward pass.
gru_backward_begin(b, da) ==
    LET dA == Fill(d.o, BatchM(b), da)
        r  == init_backward(fc, bc, p, dA)
    IN  /\ kind = "gru"
        /\ binary = TRUE
        /\ pc = "idle"
        /\ calls < MaxCalls
        /\ bc' = r.bc
        /\ raised' = r.err
        /\ pc' = IF r.err = "none" THEN "bwd" ELSE "idle"
        /\ t' = ts - 1
        /\ calls' = calls + 1
        /\ bcBatch' = b
        /\ gBefore' = g
        /\ pBefore' = p
        /\ fcBefore' = fc
        /\ bcLog' = <<>>
        /\ UNCHANGED <<kind, binary, init, d, fs, p, g, fc, ts, m, h, hp, ret,
                       initCalls, fwdCalls, tsBefore, fcBatch>>

\* working tensors the backward loop leaves in layer.bc before it calls
\* update_gradients: every entry of each tensor is the drawn value
BcDraws == { [dh |-> Scale, dr |-> Scale \div 2, dz |-> -Scale],
             [dh |-> -(Scale \div 2), dr |-> Scale, dz |-> Scale \div 4] }

\* gru_backward, timestep t of the loop up to the call of update_gradients:
\* dr and dz of this timestep, and dh for every timestep but the last one
\* (whose dh comes from init_backward)
gru_backward_step(x) ==
    LET rows == d.h
        cols == PyIdx(fs.X, -1)
        bc1  == ("dz" :> Fill(rows, cols, x.dz))
                    @@ ("dr" :> Fill(rows, cols, x.dr)) @@ bc
    IN  /\ pc = "bwd"
        /\ bc' = IF t < ts - 1 THEN ("dh" :> Fill(rows, cols, x.dh)) @@ bc1
                 ELSE bc1
        /\ pc' = "upd"
        /\ UNCHANGED <<kind, binary, init, d, fs, p, g, fc, ts, m, t, h, hp,
                       raised, ret, calls, initCalls, fwdCalls, tsBefore,
                       pBefore, fcBatch, bcBatch, gBefore, bcLog, fcBefore>>

\* the order in which update_gradients updates layer.g
GradOrder == <<"dWy", "dby", "dWh", "dUh", "dbh", "dWr", "dUr", "dbr",
               "dWz", "dUz", "dbz">>

\* hp = layer.fc['h'][t-1]
prev_hidden(fc0, tt) == PyIdx(fc0.h, tt - 1)

DotTerm(mm, A, B) ==
    [ok  |-> DotOK(A, B),
     val |-> IF DotOK(A, B) THEN Over(mm, Dot(A, B)) ELSE <<>>]
SumTerm(mm, A) == [ok |-> TRUE, val |-> Over(mm, SumAxis1(A))]

\* the right-hand side of the update of layer.g[k] in
\* update_gradients(layer, tt)
Contribution(k, fc0, bc0, mm, tt) ==
    LET hh  == PyIdx(fc0.h, tt)
        hpp == prev_hidden(fc0, tt)
        Xt  == XAt(fc0.X, tt)
        rt  == PyIdx(fc0.r, tt)
    IN  CASE k = "dWy" -> DotTerm(mm, bc0.dXt, Transpose(hh))
          [] k = "dby" -> SumTerm(mm, bc0.dXt)
          [] k = "dWh" -> DotTerm(mm, bc0.dh, Transpose(Xt))
          [] k = "dUh" -> DotTerm(mm, bc0.dh, Transpose(Multiply(rt, hpp)))
          [] k = "dbh" -> SumTerm(mm, bc0.dh)
          [] k = "dWr" -> DotTerm(mm, bc0.dr, Transpose(Xt))
          [] k = "dUr" -> DotTerm(mm, bc0.dr, Transpose(hpp))
          [] k = "dbr" -> SumTerm(mm, bc0.dr)
          [] k = "dWz" -> DotTerm(mm, bc0.dz, Transpose(Xt))
          [] k = "dUz" -> DotTerm(mm, bc0.dz, Transpose(hpp))
          [] k = "dbz" -> SumTerm(mm, bc0.dz)

\* the in-place update of layer.g[k] succeeds: the term is computed and has
\* the shape of layer.g[k]
UpdateOK(k, g0, fc0, bc0, mm, tt) ==
    LET c == Contribution(k, fc0, bc0, mm, tt)
    IN  c.ok /\ Shape2(c.val) = Shape2(g0[k])

\* index of the first update that raises, or 12 if none does
FirstBad(g0, fc0, bc0, mm, tt) ==
    LET bad == {i \in 1..Len(GradOrder) :
                   ~UpdateOK(GradOrder[i], g0, fc0, bc0, mm, tt)}
    IN  IF bad = {} THEN Len(GradOrder) + 1
        ELSE CHOOSE i \in bad : \A j \in bad : i <= j

KeyPos(k) == CHOOSE i \in 1..Len(GradOrder) : GradOrder[i] = k

update_gradients_overwrite(g0, fc0, bc0, fs0, tt) ==
    LET mm == PyIdx(fs0.X, -1)
        fb == FirstBad(g0, fc0, bc0, mm, tt)
    IN  [m   |-> mm,
         hp  |-> prev_hidden(fc0, tt),
         g   |-> [k \in DOMAIN g0 |->
                    IF KeyPos(k) < fb
                    THEN Contribution(k, fc0, bc0, mm, tt).val
                    ELSE g0[k]],
         err |-> IF fb > Len(GradOrder) THEN "none" ELSE "ValueError"]

\* update_gradients(layer, tt): layer.m, the local hp, layer.g afterwards
\* and the exception raised, if any (updates before a failing one stay)
update_gradients(g0, fc0, bc0, fs0, tt) ==
    LET mm == PyIdx(fs0.X, -1)
        fb == FirstBad(g0, fc0, bc0, mm, tt)
    IN  [m   |-> mm,
         hp  |-> prev_hidden(fc0, tt),
         g   |-> [k \in DOMAIN g0 |->
                    IF KeyPos(k) < fb
                    THEN Add(g0[k], Contribution(k, fc0, bc0, mm, tt).val)
                    ELSE g0[k]],
         err |-> IF fb > Len(GradOrder) THEN "none" ELSE "ValueError"]

\* gru_backward, timestep t of the loop: the call update_gradients(layer, t)
\* and the step to the next timestep
gru_backward_update ==
    LET u == update_gradients(g, fc, bc, fs, t)
    IN  /\ pc = "upd"
        /\ m' = u.m
        /\ hp' = u.hp
        /\ g' = u.g
        /\ raised' = u.err
        /\ bcLog' = IF u.err = "none"
                    THEN Append(bcLog, [t |-> t, bc |-> bc, hp |-> u.hp])
                    ELSE bcLog
        /\ pc' = IF u.err = "none" /\ t > 0 THEN "bwd" ELSE "idle"
        /\ t' = IF u.err = "none" /\ t > 0 THEN t - 1 ELSE t
        /\ UNCHANGED <<kind, binary, init, d, fs, p, fc, bc, ts, h, ret,
                       calls, initCalls, fwdCalls, tsBefore, pBefore, fcBatch,
                       bcBatch, gBefore, fcBefore>>

\* the training loop zeroes the gradients at the start of a training step
zero_gradients_step ==
    /\ kind = "gru"
    /\ pc = "idle"
    /\ g # zero_gradients(GradKeys, fs)
    /\ g' = zero_gradients(GradKeys, fs)
    /\ bcBatch' = NoBatch
    /\ bcLog' = <<>>
    /\ UNCHANGED <<kind, binary, init, d, fs, p, fc, bc, ts, m, pc, t, h, hp,
                   raised, ret, calls, initCalls, fwdCalls, tsBefore, pBefore,
                   fcBatch, gBefore, fcBefore>>

-----------------------------------------------------------------------------
(* Specifications                                                          *)

\* one layer driven by its training loop
Init == InitLayer /\ IdleAct /\ IdleSig /\ IdleClip

Next ==
    \/ /\ \E b \in Batches, w \in InitDraws : dense_forward(b, w)
       /\ UNCHANGED <<actVars, sigVars, clipVars>>
    \/ /\ \E b \in Batches, w \in InitDraws : gru_forward_begin(b, w)
       /\ UNCHANGED <<actVars, sigVars, clipVars>>
    \/ /\ gru_forward_step
       /\ UNCHANGED <<actVars, sigVars, clipVars>>
    \/ /\ gru_forward_end
       /\ UNCHANGED <<actVars, sigVars, clipVars>>
    \/ /\ \E b \in Batches, da \in DAFills : gru_backward_begin(b, da)
       /\ UNCHANGED <<actVars, sigVars, clipVars>>
    \/ /\ \E x \in BcDraws : gru_backward_step(x)
       /\ UNCHANGED <<actVars, sigVars, clipVars>>
    \/ /\ gru_backward_update
       /\ UNCHANGED <<actVars, sigVars, clipVars>>
    \/ /\ zero_gradients_step
       /\ UNCHANGED <<actVars, sigVars, clipVars>>

Spec == Init /\ [][Next]_vars

\* passes of several layers over the maths module
InitA == InitAct /\ IdleSig /\ IdleClip /\ IdleLayer

NextA ==
    \/ /\ \E q \in Passes : activation_tune(q)
       /\ UNCHANGED <<sigVars, clipVars, layerVars>>
    \/ /\ \E q \in Passes : Activate(q)
       /\ UNCHANGED <<sigVars, clipVars, layerVars>>

SpecAct == InitA /\ [][NextA]_vars

\* sigmoid, forward then derivative
InitS == InitSig /\ IdleAct /\ IdleClip /\ IdleLayer

NextS ==
    \/ /\ SigForward
       /\ UNCHANGED <<actVars, clipVars, layerVars>>
    \/ /\ SigDerivative
       /\ UNCHANGED <<actVars, clipVars, layerVars>>

SpecSig == InitS /\ [][NextS]_vars

\* clip_gradient on a layer's gradients
InitC == InitClip /\ IdleAct /\ IdleSig /\ IdleLayer

NextC == ClipGradient /\ UNCHANGED <<actVars, sigVars, layerVars>>

SpecClip == InitC /\ [][NextC]_vars

-----------------------------------------------------------------------------
(* Properties                                                              *)

\* the declared and the actual shapes of the layer's parameters
ParamShapes == [k \in DOMAIN p |-> <<fs[k], Shape2(p[k])>>]

\* C1: parameter initialization runs exactly once, on the first forward
\* call of a layer: that call fills layer.p and flips layer.init; every
\* later forward call, and every other step, leaves the parameters' values
\* and shapes as they are and initializes nothing.
C1_InitOnce ==
    [][ /\ (fwdCalls' > fwdCalls /\ fwdCalls = 0) =>
              /\ init = TRUE /\ init' = FALSE
              /\ initCalls' = 1
              /\ DOMAIN p' = (IF kind = "gru" THEN ParamKeys ELSE {"W", "b"})
        /\ (fwdCalls' > fwdCalls /\ fwdCalls > 0) =>
              /\ init = FALSE /\ init' = FALSE
              /\ initCalls' = initCalls
              /\ p' = p
              /\ ParamShapes' = ParamShapes
        /\ (fwdCalls' = fwdCalls) =>
              /\ init' = init
              /\ initCalls' = initCalls
              /\ p' = p ]_vars

C1_Witness ==
    /\ fwdCalls >= 2
    /\ pc = "idle"
    /\ initCalls = 1
    /\ init = FALSE

\* C2: an activation invoked by a pass that has called activation_tune
\* with its own hyperparameters returns what those hyperparameters give,
\* whatever the other passes have set in between.
C2_OwnHyperparameters ==
    (lastCall.pass # 0 /\ lastCall.tuned /\ lastCall.fn \in NeedsContext) =>
        lastCall.out = Apply(lastCall.fn, <<passPars[lastCall.pass]>>,
                             lastCall.x, lastCall.deriv)

\* C3: if the combined norm computed by clip_gradient is at most max_norm,
\* clip_gradient leaves every gradient tensor unchanged.
C3_NoClipWithinNorm ==
    (clip_pc = "clipped" /\ clip_norm <= clip_max) => clip_g = clip_pre

\* y * (1 - y), element-wise
DerivOnOutput(y) == Map2(LAMBDA v : Mul(v, Scale - v), y)

\* C4 as stated: a derivative-mode call of sigmoid on y = sigmoid(x) returns
\* y * (1 - y), whatever the other arguments of the call.
C4_DerivativeOnOutput ==
    sig_pc = "derived" => sig_d = DerivOnOutput(sig_y)

\* C4 as amended: the derivative call returns y * (1 - y) when it is made
\* with linear=False; with linear left at True it returns s * (1 - s) for
\* s = sigmoid(y).
C4_DerivativeLinearFalse ==
    sig_pc = "derived" =>
        IF sig_linear
        THEN sig_d = DerivOnOutput(Map2(sigmoid_fwd, sig_y))
        ELSE sig_d = DerivOnOutput(sig_y)

C4_Witness ==
    /\ sig_pc = "derived"
    /\ ~sig_linear
    /\ sig_d = DerivOnOutput(sig_y)
    /\ sig_d # DerivOnOutput(Map2(sigmoid_fwd, sig_y))

\* C5: end_forward on a binary layer returns, and caches as 'A', the output
\* of the last timestep only; on a layer that is not binary it returns the
\* sequence of all ts outputs; the caches z, r, h, hp keep their ts entries.
C5_EndForward ==
    [][ (pc = "fwd" /\ pc' = "idle") =>
          /\ IF binary
             THEN ret' = fc.A[ts] /\ fc'.A = fc.A[ts]
             ELSE ret' = fc.A /\ fc'.A = fc.A /\ Len(ret') = ts
          /\ \A c \in {"z", "r", "h", "hp"} :
                fc'[c] = fc[c] /\ Len(fc'[c]) = ts ]_vars

C5_Witness ==
    /\ kind = "gru"
    /\ binary
    /\ pc = "idle"
    /\ fwdCalls >= 1
    /\ ts >= 2
    /\ ret = fc.A
    /\ Len(fc.h) = ts
    /\ Rows(ret) = d.o

\* the backward pass in progress, or last made, was given the output
\* gradient of a batch the forward cache does not belong to
WrongCache == bcBatch # NoBatch /\ bcBatch # fcBatch

\* C6: init_backward and update_gradients on a batch other than the one of
\* the latest forward call (or without any forward call) end in an error
\* and modify no gradient.
C6_BackwardNeedsForward ==
    WrongCache => (g = gBefore /\ (pc = "idle" => raised # "none"))

\* C7: lrelu, elu and softmax raise when the global is undefined or lacks
\* their key, and return no value; identity, relu, sigmoid and tanh return
\* a value whatever the global holds.
KeyOf == [lrelu |-> "LRELU_alpha", elu |-> "ELU_alpha",
          softmax |-> "softmax_temperature"]

Unconfigured(fn, ctx) ==
    IF ctx = <<>> THEN TRUE ELSE KeyOf[fn] \notin DOMAIN ctx[1]

C8_PreviousHidden ==
    bcBatch # NoBatch =>
        \A i \in 1..Len(bcLog) :
            bcLog[i].hp = IF bcLog[i].t = 0
                          THEN Zeros(d.h, BatchM(fcBatch))
                          ELSE fcBefore.h[bcLog[i].t]

RECURSIVE LoggedSum(_, _)
LoggedSum(k, n) ==
    IF n = 0 THEN gBefore[k]
    ELSE Add(LoggedSum(k, n - 1),
             Contribution(k, fcBefore, bcLog[n].bc, BatchM(fcBatch),
                          bcLog[n].t).val)

\* C10: every call of update_gradients adds its term, divided by the batch
\* size, to each of the eleven gradients: throughout a backward pass each
\* gradient is its value before the pass plus the terms of the calls made,
\* the calls run from t = ts-1 down to 0, and parameters and forward cache
\* stay as they were.
C10_GradientsAccumulate ==
    bcBatch # NoBatch =>
        /\ p = pBefore
        /\ fc = fcBefore
        /\ \A k \in GradKeys : g[k] = LoggedSum(k, Len(bcLog))
        /\ \A i \in 1..Len(bcLog) : bcLog[i].t = ts - i
        /\ (pc = "idle" /\ raised = "none") => Len(bcLog) = ts

C10_Witness ==
    /\ bcBatch # NoBatch
    /\ pc = "idle"
    /\ raised = "none"
    /\ Len(bcLog) >= 2
    /\ \A k \in GradKeys : g[k] # gBefore[k]

====
